---- MODULE Spec2Model ----
(***************************************************************************)
(* A model of dvm's `upgrade` and `clean` commands.                        *)
(*                                                                         *)
(*   src/src/commands/upgrade.rs  upgrade_command and its helpers          *)
(*   src/src/commands/clean.rs    exec                                     *)
(*                                                                         *)
(* Strings are sequences of tokens, versions are records as in             *)
(* semver_parser::version::Version, files are records carrying the file's  *)
(* identity, its behaviour when run and its permission bits.               *)
(***************************************************************************)
EXTENDS Integers, Sequences, FiniteSets, TLC

\* ------------------------------------------------------------------ bounds
\* Versions of the model: major + minor + patch <= MaxWeight.
MaxWeight == 1

\* Requirements a user declared, and version directories of the cache.
MaxRequirements == 2

MaxDirs == 3

\* Invocations of clean::exec in a row.
MaxRuns == 2

\* ------------------------------------------------------------ upgrade state
VARIABLES
  dry_run,          \* argument of upgrade_command
  force,            \* argument of upgrade_command
  version,          \* argument of upgrade_command: Option<String>
  platform,         \* the target the program was built for (cfg)
  current_version,  \* semver_parse(crate::version::DENO)
  pc,               \* position of upgrade_command
  result,           \* how the run ended: "running", "Ok", "Err", "exit1", "panic"
  message,          \* the last line the run printed that tells how it went
  latest_version,   \* what get_latest_version returned
  install_version,  \* the version the run decided to install
  url,              \* the url download_package was called with
  status_code,      \* response.status() of the archive request
  archive_data,     \* what download_package returned
  old_exe_path,     \* which("deno"): the active path, once located
  new_exe_path,     \* what unpack returned: the version whose directory holds it
  permissions,      \* fs::metadata(&old_exe_path)?.permissions()
  active,           \* the file at the active executable's path
  old_sibling,      \* the file at <active>.old.exe
  dirs,             \* the version directories under get_dvm_root()
  trace,            \* the calls the run made, in order
  active0,          \* the file at the active path when the command started
  dirs0             \* the version directories when the command started

uvars == <<dry_run, force, version, platform, current_version, pc, result,
           message, latest_version, install_version, url, status_code,
           archive_data, old_exe_path, new_exe_path, permissions, active,
           old_sibling, dirs, trace, active0, dirs0>>

\* ------------------------------------------------------------- clean state
VARIABLES
  cache_exists,     \* home.join("versions").exists()
  versions,         \* meta.versions: a sequence of mappings
  version_dirs,     \* the directories under <home>/versions
  cpc,              \* position of clean::exec
  requires,         \* the requirements exec collected
  cresult,          \* how exec ended: "running", "Ok", "exit0"
  ctrace,           \* the calls exec made on meta, in order
  versions0,        \* meta.versions when exec was entered
  version_dirs0,    \* the directories under <home>/versions when exec was entered
  runs              \* how many times exec was entered

cvars == <<cache_exists, versions, version_dirs, cpc, requires, cresult, ctrace,
           versions0, version_dirs0, runs>>

vars == <<uvars, cvars>>

\* ---------------------------------------------------------------- options
\* Option<T> and "a path that may hold a file" are sets of at most one element.
None == {}

Some(x) == {x}

The(o) == CHOOSE x \in o : TRUE

\* --------------------------------------------------------------- versions
\* semver_parser::version::Version, without pre-release and build metadata.
Versions ==
  {v \in [major : 0..MaxWeight, minor : 0..MaxWeight, patch : 0..MaxWeight] :
     v.major + v.minor + v.patch <= MaxWeight}

DigitStr == <<"0", "1", "2", "3", "4", "5", "6", "7", "8", "9">>

IsDigit(t) == \E i \in 1..Len(DigitStr) : DigitStr[i] = t

DigitVal(t) == (CHOOSE i \in 1..Len(DigitStr) : DigitStr[i] = t) - 1

\* impl Display for Version: "{major}.{minor}.{patch}".
Format(v) ==
  <<DigitStr[v.major + 1], ".", DigitStr[v.minor + 1], ".", DigitStr[v.patch + 1]>>

\* semver_parse: Ok(version) for <digit>.<digit>.<digit>, Err otherwise.
semver_parse(s) ==
  IF /\ Len(s) = 5
     /\ IsDigit(s[1]) /\ s[2] = "." /\ IsDigit(s[3]) /\ s[4] = "." /\ IsDigit(s[5])
  THEN Some([major |-> DigitVal(s[1]), minor |-> DigitVal(s[3]),
             patch |-> DigitVal(s[5])])
  ELSE None

\* The derived PartialOrd of Version: lexicographic on major, minor, patch.
VersionGe(a, b) ==
  \/ a.major > b.major
  \/ a.major = b.major /\ a.minor > b.minor
  \/ a.major = b.major /\ a.minor = b.minor /\ a.patch >= b.patch

\* The strings a user passes: every version of the model and malformed ones.
Malformed == {<<>>, <<"1", ".", "0">>, <<"v", "1", ".", "0", ".", "0">>}

VersionArgs == {None} \cup {Some(Format(v)) : v \in Versions} \cup {Some(m) : m \in Malformed}

\* ------------------------------------------------------------------ files
\* What running a file with -V gives: whether it can be spawned at all, whether
\* its standard output is UTF-8, its exit status and its standard output.
IsWhitespace(t) == t \in {" ", "\n"}

RECURSIVE TrimStart(_)
TrimStart(s) ==
  IF s # <<>> /\ IsWhitespace(Head(s)) THEN TrimStart(Tail(s)) ELSE s

RECURSIVE TrimEnd(_)
TrimEnd(s) ==
  IF s # <<>> /\ IsWhitespace(s[Len(s)])
  THEN TrimEnd(SubSeq(s, 1, Len(s) - 1))
  ELSE s

\* str::trim
Trim(s) == TrimEnd(TrimStart(s))

\* format!("deno {}", expected_version)
DenoLine(v) == <<"deno", " ">> \o Format(v)

\* What executables that name one of the versions vs print.
StdOuts(vs) ==
  UNION {{DenoLine(v) \o <<"\n">>, <<"deno", "\n">> \o Format(v)} : v \in vs}

Binaries(vs) ==
  [runnable : {TRUE}, utf8 : {TRUE}, success : BOOLEAN, stdout : StdOuts(vs)]
    \cup {[runnable |-> TRUE, utf8 |-> FALSE, success |-> TRUE, stdout |-> <<>>],
          [runnable |-> FALSE, utf8 |-> TRUE, success |-> FALSE, stdout |-> <<>>]}

\* A released deno of version v.
Deno(v) ==
  [runnable |-> TRUE, utf8 |-> TRUE, success |-> TRUE,
   stdout |-> DenoLine(v) \o <<"\n">>]

\* Permission bits of an executable found on PATH, and of a file an archive
\* without mode bits is extracted to.
ExePerms == {"rwx", "r-x"}

ExtractedPerm == "rw-"

File(id, bin, perm) == [id |-> id, bin |-> bin, perm |-> perm]

\* An archive body: the executable it holds, if any.
Archives(vs) == {Some(b) : b \in Binaries(vs)} \cup {None}

\* ----------------------------------------------------------- pure helpers
\* ARCHIVE_NAME, selected by cfg at build time.
Platforms == {"windows", "macos", "linux"}

ARCHIVE_NAME(p) ==
  CASE p = "windows" -> <<"deno-x86_64-pc-windows-msvc", ".", "zip">>
    [] p = "macos" -> <<"deno-x86_64-apple-darwin", ".", "zip">>
    [] p = "linux" -> <<"deno-x86_64-unknown-linux-gnu", ".", "zip">>

\* A variant whose format string lacks the "v" before the version.
compose_url_without_v(v, p) ==
  <<"https://github.com/denoland/deno/releases/download/">> \o Format(v)
    \o <<"/">> \o ARCHIVE_NAME(p)

\* format!("https://github.com/denoland/deno/releases/download/v{}/{}", ..)
compose_url_to_exec(v, p) ==
  <<"https://github.com/denoland/deno/releases/download/v">> \o Format(v)
    \o <<"/">> \o ARCHIVE_NAME(p)

\* Path::extension of ARCHIVE_NAME
archive_ext(p) == ARCHIVE_NAME(p)[Len(ARCHIVE_NAME(p))]

\* `if !force && current_version == ver`
AlreadyInstalled(f, cur, ver) == ~f /\ cur = ver

\* A variant that compares with `>`.
MostRecentStrict(f, cur, latest) == ~f /\ VersionGe(cur, latest) /\ cur # latest

\* `if !force && current_version >= latest_version`
MostRecent(f, cur, latest) == ~f /\ VersionGe(cur, latest)

\* A variant that ignores dry_run.
ReplaceAlways(dr) == TRUE

\* `if !dry_run`
ShouldReplace(dr) == ~dr

\* StatusCode::is_success, NOT_FOUND, is_client_error, is_server_error
StatusCodes == {200, 304, 403, 404, 500}

is_success(st) == 200 <= st /\ st <= 299

NOT_FOUND == 404

is_client_error(st) == 400 <= st /\ st <= 499

is_server_error(st) == 500 <= st /\ st <= 599

\* A variant that gives up on server errors only.
response_class_server_only(st) ==
  IF is_server_error(st) THEN "failed" ELSE "body"

\* The two exits of download_package on response.status(); any other status
\* goes on to response.copy_to.
response_class(st) ==
  IF st = NOT_FOUND THEN "not_found"
  ELSE IF is_client_error(st) \/ is_server_error(st) THEN "failed"
  ELSE "body"

\* A variant without `assert!(output.status.success())`.
check_exe_unchecked_status(bin, expected_version) ==
  IF ~bin.runnable THEN "Err"
  ELSE IF ~bin.utf8 THEN "Err"
  ELSE IF Trim(bin.stdout) # DenoLine(expected_version) THEN "panic"
  ELSE "Ok"

\* A variant without the assert_eq! on the output.
check_exe_unchecked_output(bin, expected_version) ==
  IF ~bin.runnable THEN "Err"
  ELSE IF ~bin.utf8 THEN "Err"
  ELSE IF ~bin.success THEN "panic"
  ELSE "Ok"

\* check_exe: "Err" from the two `?`, "panic" from the two assertions.
check_exe(bin, expected_version) ==
  IF ~bin.runnable THEN "Err"
  ELSE IF ~bin.utf8 THEN "Err"
  ELSE IF ~bin.success THEN "panic"
  ELSE IF Trim(bin.stdout) # DenoLine(expected_version) THEN "panic"
  ELSE "Ok"

\* ------------------------------------------------------- upgrade_command
inputs == <<dry_run, force, version, platform, current_version, active0, dirs0>>

files == <<active, old_sibling, dirs>>

locals == <<latest_version, install_version, url, status_code, archive_data, old_exe_path,
            new_exe_path, permissions>>

EmptyDir == [exists |-> FALSE, zip |-> FALSE, exe |-> None]

\* The file `which("deno")` finds before the run: a deno of the current version.
OldExe(perm) == File("old", Deno(current_version), perm)

\* The run is over: `return`, `?`, std::process::exit(1) or a panic.
Finish(r, m) ==
  /\ pc' = "done"
  /\ result' = r
  /\ message' = m

Step(next) ==
  /\ pc' = next
  /\ UNCHANGED <<result, message>>

Call(name) == trace' = Append(trace, name)

\* Client::builder().build()?
BuildClient ==
  /\ pc = "build_client"
  /\ \/ Step("decide")
     \/ Finish("Err", "client")
  /\ UNCHANGED <<inputs, locals, files, trace, cvars>>

\* `match version { Some(passed_version) => ... }`
DecideExplicit ==
  /\ pc = "decide"
  /\ version # None
  /\ LET parsed == semver_parse(The(version)) IN
       IF parsed = None
       THEN /\ Finish("exit1", "Invalid semver passed")
            /\ UNCHANGED install_version
       ELSE IF AlreadyInstalled(force, current_version, The(parsed))
       THEN /\ Finish("Ok", "Version is already installed")
            /\ UNCHANGED install_version
       ELSE /\ Step("download")
            /\ install_version' = parsed
  /\ UNCHANGED <<inputs, latest_version, url, status_code, archive_data, old_exe_path,
                 new_exe_path, permissions, files, trace, cvars>>

\* `match version { None => ... }` with get_latest_version: the request fails,
\* the page holds no tag, the tag does not parse, or the page names a version.
DecideLatest ==
  /\ pc = "decide"
  /\ version = None
  /\ Call("get_latest_version")
  /\ \/ /\ Finish("Err", "latest: request failed")
        /\ UNCHANGED <<latest_version, install_version>>
     \/ /\ Finish("Err", "Cannot read latest tag version")
        /\ UNCHANGED <<latest_version, install_version>>
     \/ /\ Finish("panic", "latest: unwrap")
        /\ UNCHANGED <<latest_version, install_version>>
     \/ \E latest \in Versions :
          /\ latest_version' = Some(latest)
          /\ IF MostRecent(force, current_version, latest)
             THEN /\ Finish("Ok", "Local deno version is the most recent release")
                  /\ UNCHANGED install_version
             ELSE /\ Step("download")
                  /\ install_version' = Some(latest)
  /\ UNCHANGED <<inputs, url, status_code, archive_data, old_exe_path,
                 new_exe_path, permissions, files, cvars>>

\* A variant that asks again after a transport failure.
OnNetworkErrorRetry ==
  /\ pc' = "download"
  /\ UNCHANGED <<result, message>>

\* A variant that reports the transport failure and goes on.
OnNetworkErrorContinue ==
  /\ pc' = "which"
  /\ message' = "Network error"
  /\ UNCHANGED result

\* `Err(error) => { println!("Network error {}", &error); std::process::exit(1) }`
OnNetworkError == Finish("exit1", "Network error")

\* download_package(&compose_url_to_exec(&install_version)?, client, ..)?
\* The body holds an executable of the version asked for or of the installed
\* one, an executable that does not answer as a deno does, or none.
DownloadPackage ==
  /\ pc = "download"
  /\ Call("download_package")
  /\ url' = Some(compose_url_to_exec(The(install_version), platform))
  /\ \/ /\ OnNetworkError
        /\ UNCHANGED <<status_code, archive_data>>
     \/ \E st \in StatusCodes :
          /\ status_code' = Some(st)
          /\ IF response_class(st) = "not_found"
             THEN /\ Finish("exit1", "Version has not been found, aborting")
                  /\ UNCHANGED archive_data
             ELSE IF response_class(st) = "failed"
             THEN /\ Finish("exit1", "Download failed")
                  /\ UNCHANGED archive_data
             ELSE \/ /\ Finish("Err", "copy_to")
                     /\ UNCHANGED archive_data
                  \/ \E body \in Archives({The(install_version), current_version}) :
                       /\ Step("which")
                       /\ archive_data' = Some(body)
  /\ UNCHANGED <<inputs, latest_version, install_version, old_exe_path, new_exe_path,
                 permissions, files, cvars>>

\* A variant that goes on without an executable.
WhichUnchecked ==
  /\ pc = "which"
  /\ Call("which")
  /\ Step("unpack")
  /\ old_exe_path' = Some("active")
  /\ UNCHANGED <<inputs, latest_version, install_version, url, status_code, archive_data,
                 new_exe_path, permissions, files, cvars>>

\* which("deno").unwrap()
Which ==
  /\ pc = "which"
  /\ Call("which")
  /\ IF active = None
     THEN /\ Finish("panic", "which: unwrap")
          /\ UNCHANGED old_exe_path
     ELSE /\ Step("unpack")
          /\ old_exe_path' = Some("active")
  /\ UNCHANGED <<inputs, latest_version, install_version, url, status_code, archive_data,
                 new_exe_path, permissions, files, cvars>>

\* A variant that removes the version directory it wrote to.
WrittenThenRemoved(dir) == EmptyDir

\* The version directory once fs::create_dir_all(&dvm_dir) and
\* fs::write(&archive_path, &archive_data) were done; nothing removes either.
Written(dir) == [dir EXCEPT !.exists = TRUE, !.zip = TRUE]

\* unpack(archive_data, &install_version)?  Every ARCHIVE_NAME ends in "zip",
\* so the "gz" arm is never taken; any other extension panics.
Unpack ==
  /\ pc = "unpack"
  /\ Call("unpack")
  /\ LET v == The(install_version)
         dir == dirs[v]
         written == Written(dir)
         extracted ==
           IF The(archive_data) = None
           THEN written
           ELSE [written EXCEPT
                   !.exe = Some(File("new", The(The(archive_data)), ExtractedPerm))]
     IN
       IF archive_ext(platform) # "zip"
       THEN /\ Finish("panic", "Unsupported archive type")
            /\ dirs' = [dirs EXCEPT ![v].exists = TRUE]
            /\ UNCHANGED new_exe_path
       ELSE
         \/ \* get_dvm_root()? or fs::create_dir_all(&dvm_dir)?
            /\ Finish("Err", "unpack: dvm_dir")
            /\ UNCHANGED <<dirs, new_exe_path>>
         \/ \* fs::write(&archive_path, &archive_data)?
            /\ Finish("Err", "unpack: write")
            /\ dirs' = [dirs EXCEPT ![v].exists = TRUE]
            /\ UNCHANGED new_exe_path
         \/ \* .spawn()? or .wait()?
            /\ Finish("Err", "unpack: spawn")
            /\ dirs' = [dirs EXCEPT ![v] = written]
            /\ UNCHANGED new_exe_path
         \/ \* assert!(unpack_status.success())
            /\ Finish("panic", "unpack: status")
            /\ dirs' = [dirs EXCEPT ![v] = written]
            /\ UNCHANGED new_exe_path
         \/ \* the unpack process succeeded: assert!(exe_path.exists())
            /\ dirs' = [dirs EXCEPT ![v] = extracted]
            /\ IF extracted.exe = None
               THEN /\ Finish("panic", "unpack: exe_path")
                    /\ UNCHANGED new_exe_path
               ELSE /\ Step("permissions")
                    /\ new_exe_path' = Some(v)
  /\ UNCHANGED <<inputs, latest_version, install_version, url, status_code, archive_data,
                 old_exe_path, permissions, active, old_sibling, cvars>>

\* A variant that reads the permissions and does not set them.
SetPermissionsSkipped ==
  /\ pc = "permissions"
  /\ \/ /\ Finish("Err", "metadata")
        /\ UNCHANGED <<permissions, trace>>
     \/ /\ Step("check_exe")
        /\ permissions' = Some(The(active).perm)
        /\ Call("set_permissions")
  /\ UNCHANGED <<inputs, latest_version, install_version, url, status_code, archive_data,
                 old_exe_path, new_exe_path, files, cvars>>

\* fs::metadata(&old_exe_path)?.permissions(); fs::set_permissions(..)?
SetPermissions ==
  /\ pc = "permissions"
  /\ LET v == The(new_exe_path) IN
       \/ /\ Finish("Err", "metadata")
          /\ UNCHANGED <<permissions, dirs, trace>>
       \/ /\ Finish("Err", "set_permissions")
          /\ permissions' = Some(The(active).perm)
          /\ Call("set_permissions")
          /\ UNCHANGED dirs
       \/ /\ Step("check_exe")
          /\ permissions' = Some(The(active).perm)
          /\ Call("set_permissions")
          /\ dirs' = [dirs EXCEPT
                        ![v].exe = Some([The(dirs[v].exe) EXCEPT
                                           !.perm = The(active).perm])]
  /\ UNCHANGED <<inputs, latest_version, install_version, url, status_code, archive_data,
                 old_exe_path, new_exe_path, active, old_sibling, cvars>>

\* check_exe(&new_exe_path, &install_version)?; if !dry_run { .. }
CheckExe ==
  /\ pc = "check_exe"
  /\ Call("check_exe")
  /\ LET r == check_exe(The(dirs[The(new_exe_path)].exe).bin, The(install_version)) IN
       IF r # "Ok"
       THEN Finish(r, "check_exe")
       ELSE IF ShouldReplace(dry_run)
       THEN Step("replace_exe")
       ELSE Finish("Ok", "Upgrade done successfully")
  /\ UNCHANGED <<inputs, locals, files, cvars>>

\* A variant that tries the first step again when it fails.
ReplaceRemoveRetries ==
  /\ pc = "replace_exe"
  /\ Call("replace_exe")
  /\ \/ /\ pc' = "replace_exe"
        /\ message' = "replace_exe: first step"
        /\ UNCHANGED <<result, active, old_sibling>>
     \/ /\ Step("copy")
        /\ active' = None
        /\ old_sibling' = IF platform = "windows" THEN active ELSE old_sibling
  /\ UNCHANGED <<inputs, locals, dirs, cvars>>

\* A variant whose first step leaves the old file where it is.
ReplaceRemoveKeepsOld ==
  /\ pc = "replace_exe"
  /\ Call("replace_exe")
  /\ \/ /\ Finish("Err", "replace_exe: first step")
        /\ UNCHANGED <<active, old_sibling>>
     \/ /\ Step("copy")
        /\ UNCHANGED active
        /\ old_sibling' = IF platform = "windows" THEN active ELSE old_sibling
  /\ UNCHANGED <<inputs, locals, dirs, cvars>>

\* replace_exe, first step: fs::rename(old, old.with_extension("old.exe"))? on
\* windows, fs::remove_file(old)? elsewhere.
ReplaceRemove ==
  /\ pc = "replace_exe"
  /\ Call("replace_exe")
  /\ \/ /\ Finish("Err", "replace_exe: first step")
        /\ UNCHANGED <<active, old_sibling>>
     \/ /\ Step("copy")
        /\ active' = None
        /\ old_sibling' = IF platform = "windows" THEN active ELSE old_sibling
  /\ UNCHANGED <<inputs, locals, dirs, cvars>>

\* replace_exe, second step: fs::copy(new, old)?
ReplaceCopy ==
  /\ pc = "copy"
  /\ Call("copy")
  /\ \/ /\ Finish("Err", "replace_exe: copy")
        /\ UNCHANGED active
     \/ /\ Finish("Ok", "Upgrade done successfully")
        /\ active' = dirs[The(new_exe_path)].exe
  /\ UNCHANGED <<inputs, locals, old_sibling, dirs, cvars>>

\* The state of clean::exec while the upgrade command runs.
CleanIdle ==
  /\ cache_exists = FALSE
  /\ versions = <<>>
  /\ version_dirs = {}
  /\ cpc = "idle"
  /\ requires = <<>>
  /\ cresult = "running"
  /\ ctrace = <<>>
  /\ versions0 = <<>>
  /\ version_dirs0 = {}
  /\ runs = 0

InitUpgrade ==
  /\ dry_run \in BOOLEAN
  /\ force \in BOOLEAN
  /\ version \in VersionArgs
  /\ platform \in Platforms
  /\ current_version \in Versions
  /\ pc = "build_client"
  /\ result = "running"
  /\ message = ""
  /\ latest_version = None
  /\ install_version = None
  /\ url = None
  /\ status_code = None
  /\ archive_data = None
  /\ old_exe_path = None
  /\ new_exe_path = None
  /\ permissions = None
  /\ active \in {None} \cup {Some(OldExe(p)) : p \in ExePerms}
  /\ old_sibling = None
  /\ dirs \in {[v \in Versions |-> EmptyDir],
               [v \in Versions |->
                  IF v = current_version
                  THEN [exists |-> TRUE, zip |-> TRUE,
                        exe |-> Some(File("cached", Deno(v), "rwx"))]
                  ELSE EmptyDir]}
  /\ trace = <<>>
  /\ active0 = active
  /\ dirs0 = dirs

Init == InitUpgrade /\ CleanIdle

Next ==
  \/ BuildClient
  \/ DecideExplicit
  \/ DecideLatest
  \/ DownloadPackage
  \/ Which
  \/ Unpack
  \/ SetPermissions
  \/ CheckExe
  \/ ReplaceRemove
  \/ ReplaceCopy

Spec == Init /\ [][Next]_vars

\* ------------------------------------------------------------ clean::exec
Requirements == 1..MaxRequirements

DirNames == 1..MaxDirs

\* VersionMapping { required, current }
Mappings == [required : Requirements, current : DirNames]

\* meta.versions holds at most one mapping per requirement.
MappingStores ==
  {m \in UNION {[1..n -> Mappings] : n \in 0..MaxRequirements} :
     \A i, j \in 1..Len(m) : m[i].required = m[j].required => i = j}

\* VersionMapping::is_valid_mapping: the mapped version's directory is there.
is_valid_mapping(v, on_disk) == v.current \in on_disk

\* DvmMeta::delete_version_mapping: drops the entry of the requirement, if any.
delete_version_mapping(store, required) ==
  SelectSeq(store, LAMBDA v : v.required # required)

\* DvmMeta::clean_files: drops the directories no valid mapping refers to.
clean_files(store, on_disk) ==
  {d \in on_disk :
     \E i \in 1..Len(store) :
       store[i].current = d /\ is_valid_mapping(store[i], on_disk)}

\* A variant with the two arms swapped.
CollectedValid(v, on_disk) == is_valid_mapping(v, on_disk)

\* `if v.is_valid_mapping() { None } else { Some(v.required.clone()) }`
Collected(v, on_disk) == ~is_valid_mapping(v, on_disk)

\* A variant that stops at the first requirement it collects.
RECURSIVE filter_map_first(_, _)
filter_map_first(store, on_disk) ==
  IF store = <<>> THEN <<>>
  ELSE IF Collected(Head(store), on_disk)
  THEN <<Head(store).required>>
  ELSE filter_map_first(Tail(store), on_disk)

\* `meta.versions.iter().filter_map(..).collect::<Vec<_>>()`
RECURSIVE filter_map(_, _)
filter_map(store, on_disk) ==
  IF store = <<>> THEN <<>>
  ELSE IF Collected(Head(store), on_disk)
  THEN <<Head(store).required>> \o filter_map(Tail(store), on_disk)
  ELSE filter_map(Tail(store), on_disk)

CFinish(r) ==
  /\ cpc' = "done"
  /\ cresult' = r

\* A variant that never takes the early exit.
NoCacheIgnored(exists) == FALSE

\* `if !cache_folder.exists()`
NoCache(exists) == ~exists

\* `if !cache_folder.exists() { std::process::exit(0); }`
CheckCache ==
  /\ cpc = "start"
  /\ IF NoCache(cache_exists)
     THEN CFinish("exit0")
     ELSE /\ cpc' = "collect"
          /\ UNCHANGED cresult
  /\ UNCHANGED <<cache_exists, versions, version_dirs, requires, ctrace,
                 versions0, version_dirs0, runs, uvars>>

\* `let requires = meta.versions.iter().filter_map(..).collect::<Vec<_>>();`
Collect ==
  /\ cpc = "collect"
  /\ requires' = filter_map(versions, version_dirs)
  /\ cpc' = "delete"
  /\ UNCHANGED <<cache_exists, versions, version_dirs, cresult, ctrace,
                 versions0, version_dirs0, runs, uvars>>

\* One round of `for required in requires { meta.delete_version_mapping(..) }`
DeleteMapping ==
  /\ cpc = "delete"
  /\ requires # <<>>
  /\ versions' = delete_version_mapping(versions, Head(requires))
  /\ requires' = Tail(requires)
  /\ ctrace' = Append(ctrace, [op |-> "delete_version_mapping", arg |-> Head(requires)])
  /\ UNCHANGED <<cache_exists, version_dirs, cpc, cresult, versions0,
                 version_dirs0, runs, uvars>>

\* `meta.clean_files(); println!("Cleaned successfully"); Ok(())`
CleanFiles ==
  /\ cpc = "delete"
  /\ requires = <<>>
  /\ version_dirs' = clean_files(versions, version_dirs)
  /\ ctrace' = Append(ctrace, [op |-> "clean_files", arg |-> 0])
  /\ CFinish("Ok")
  /\ UNCHANGED <<cache_exists, versions, requires, versions0, version_dirs0,
                 runs, uvars>>

\* The command is run again: exec is entered with the store and the
\* directories the last run left.
ExecAgain ==
  /\ cpc = "done"
  /\ runs < MaxRuns
  /\ runs' = runs + 1
  /\ cpc' = "start"
  /\ cresult' = "running"
  /\ requires' = <<>>
  /\ ctrace' = <<>>
  /\ versions0' = versions
  /\ version_dirs0' = version_dirs
  /\ UNCHANGED <<cache_exists, versions, version_dirs, uvars>>

\* The state of upgrade_command while clean::exec runs.
UpgradeIdle ==
  /\ dry_run = FALSE
  /\ force = FALSE
  /\ version = None
  /\ platform = "linux"
  /\ current_version = [major |-> 0, minor |-> 0, patch |-> 0]
  /\ pc = "idle"
  /\ result = "running"
  /\ message = ""
  /\ latest_version = None
  /\ install_version = None
  /\ url = None
  /\ status_code = None
  /\ archive_data = None
  /\ old_exe_path = None
  /\ new_exe_path = None
  /\ permissions = None
  /\ active = None
  /\ old_sibling = None
  /\ dirs = [v \in Versions |-> EmptyDir]
  /\ trace = <<>>
  /\ active0 = None
  /\ dirs0 = dirs

\* Without the cache root there are no version directories.
InitClean ==
  /\ cache_exists \in BOOLEAN
  /\ versions \in MappingStores
  /\ version_dirs \in IF cache_exists THEN SUBSET DirNames ELSE {{}}
  /\ cpc = "start"
  /\ requires = <<>>
  /\ cresult = "running"
  /\ ctrace = <<>>
  /\ versions0 = versions
  /\ version_dirs0 = version_dirs
  /\ runs = 1

CleanInit == InitClean /\ UpgradeIdle

CleanNext ==
  \/ CheckCache
  \/ Collect
  \/ DeleteMapping
  \/ CleanFiles
  \/ ExecAgain

CleanSpec == CleanInit /\ [][CleanNext]_vars

\* ================================================================= claims
RECURSIVE Count(_, _)
Count(s, x) ==
  IF s = <<>> THEN 0
  ELSE (IF Head(s) = x THEN 1 ELSE 0) + Count(Tail(s), x)

Called(name) == Count(trace, name) > 0

\* What the verification asks of an executable: it runs, exits with status 0
\* and prints, up to surrounding whitespace, "deno <v>" in UTF-8.
PassesVerification(bin, v) ==
  /\ bin.runnable
  /\ bin.utf8
  /\ bin.success
  /\ Trim(bin.stdout) = <<"deno", " ">> \o Format(v)

\* The extracted executable of the run.
NewExe == The(dirs[The(new_exe_path)].exe)

\* C1: replace_exe is invoked only for an extracted executable that passes the
\* verification for the target version, and a file at the active path is
\* either the previous executable or an executable that passes it.
C1_VerifiedBeforeReplace ==
  /\ Called("replace_exe") =>
       /\ new_exe_path # None
       /\ PassesVerification(NewExe.bin, The(install_version))
  /\ active # None =>
       \/ active = active0
       \/ /\ install_version # None
          /\ PassesVerification(The(active).bin, The(install_version))

\* A run without dry_run whose verification failed: nothing was replaced.
C1_Witness ==
  /\ pc = "done"
  /\ message = "check_exe"
  /\ ~dry_run
  /\ ~PassesVerification(NewExe.bin, The(install_version))
  /\ active = active0

\* C2, as stated: off windows, once located, the active path always holds an
\* executable, the previous one or the newly installed one.
C2_NeverMissing ==
  (platform # "windows" /\ old_exe_path # None) =>
    /\ active # None
    /\ \/ active = active0
       \/ new_exe_path # None /\ active = dirs[The(new_exe_path)].exe

\* C2, amended: the active path holds the previous executable until the first
\* step of replace_exe succeeds, nothing from then until the copy succeeds (on
\* every platform, and for good if the copy fails), and the new executable
\* after the copy.
C2_MissingOnlyBetweenSteps ==
  old_exe_path # None =>
    /\ active = None <=> (pc = "copy" \/ message = "replace_exe: copy")
    /\ active # None =>
         IF Called("copy") THEN active = dirs[The(new_exe_path)].exe
         ELSE active = active0

\* The copy failed after the old executable was removed.
C2_Witness ==
  /\ pc = "done"
  /\ message = "replace_exe: copy"
  /\ platform # "windows"
  /\ active = None
  /\ active0 # None

\* C3: with dry_run, replace_exe is never called and the active path holds
\* what it held when the command started.
C3_DryRunKeepsActive ==
  dry_run => /\ ~Called("replace_exe")
             /\ ~Called("copy")
             /\ active = active0
             /\ old_sibling = None

\* A dry run that went through fetch, unpack and verification.
C3_Witness ==
  /\ dry_run
  /\ pc = "done"
  /\ result = "Ok"
  /\ Called("check_exe")
  /\ active0 # None
  /\ active = active0

\* C4: after a successful upgrade without dry_run that was not
\* short-circuited, the file at the active path reports the target version and
\* is not the previous executable, which was deleted, or renamed to the .old
\* sibling on windows.
C4_ActiveReportsTarget ==
  (pc = "done" /\ result = "Ok" /\ ~dry_run /\ install_version # None) =>
    /\ active # None
    /\ The(active).bin.runnable
    /\ The(active).bin.utf8
    /\ The(active).bin.success
    /\ Trim(The(active).bin.stdout) = <<"deno", " ">> \o Format(The(install_version))
    /\ The(active).id # "old"
    /\ old_sibling = IF platform = "windows" THEN active0 ELSE None

\* A successful upgrade to a version other than the installed one.
C4_Witness ==
  /\ pc = "done"
  /\ result = "Ok"
  /\ ~dry_run
  /\ install_version # None
  /\ The(install_version) # current_version
  /\ Called("copy")

\* Nothing on the filesystem differs from what the command found.
FilesUntouched ==
  /\ active = active0
  /\ old_sibling = None
  /\ dirs = dirs0

\* C5: an explicit version equal to the installed one, without force: no
\* network call, no change on the filesystem, and the run ends successfully.
C5_SameVersionNoOp ==
  (version # None /\ semver_parse(The(version)) = Some(current_version) /\ ~force) =>
    /\ trace = <<>>
    /\ FilesUntouched
    /\ pc = "done" => result = "Ok"

\* The version the decision is about: the parsed argument, or the resolved
\* latest version.
Target == IF version # None THEN semver_parse(The(version)) ELSE latest_version

Newer == Target # None /\ ~VersionGe(current_version, The(Target))

ClientBuilt == pc # "build_client" /\ message # "client"

Fetches == Count(trace, "download_package")

LatestFetches == Count(trace, "get_latest_version")

C7_MostRecentStops ==
  (/\ version = None
   /\ latest_version # None
   /\ ~force
   /\ VersionGe(current_version, The(latest_version))) =>
    /\ pc = "done"
    /\ result = "Ok"
    /\ trace = <<"get_latest_version">>
    /\ install_version = None
    /\ FilesUntouched

\* The latest version is the installed one.
C7_Witness ==
  /\ version = None
  /\ ~force
  /\ latest_version = Some(current_version)
  /\ pc = "done"
  /\ result = "Ok"

\* C8: an archive fetch answered 404 ends the run with a non-zero status
\* before unpack: no version directory is created, the active executable
\* stays.
C8_NotFoundStops ==
  status_code = Some(404) =>
    /\ pc = "done"
    /\ result = "exit1"
    /\ archive_data = None
    /\ ~Called("which")
    /\ ~Called("unpack")
    /\ FilesUntouched

\* A 404 for a version that has no directory.
C8_Witness ==
  /\ status_code = Some(404)
  /\ pc = "done"
  /\ ~dirs[The(install_version)].exists
  /\ active # None

\* C9: a malformed explicit version ends the run with the invalid-version
\* failure, with no network call and no change on the filesystem, whatever
\* force and dry_run are.
C9_MalformedAborts ==
  (version # None /\ semver_parse(The(version)) = None) =>
    /\ trace = <<>>
    /\ FilesUntouched
    /\ pc = "done" => (result = "exit1" /\ message = "Invalid semver passed")

\* ------------------------------------------------------------------------
Range(f) == {f[i] : i \in DOMAIN f}

ValidBefore == {m \in Range(versions0) : m.current \in version_dirs0}

InvalidBefore == Range(versions0) \ ValidBefore

Deleted(k) ==
  {ctrace[i].arg : i \in {j \in 1..k : ctrace[j].op = "delete_version_mapping"}}

\* C10: with the cache root there, exec leaves exactly the mappings that were
\* valid, and calls clean_files once, after the mappings of all invalid
\* requirements were deleted.
C10_InvalidMappingsDeleted ==
  /\ cresult = "Ok" =>
       /\ cache_exists
       /\ Range(versions) = ValidBefore
       /\ Len(versions) = Cardinality(ValidBefore)
  /\ \A i \in 1..Len(ctrace) :
       ctrace[i].op = "clean_files" =>
         /\ i = Len(ctrace)
         /\ requires = <<>>
         /\ Deleted(i - 1) = {m.required : m \in InvalidBefore}

\* A store with a valid and an invalid mapping was cleaned.
C10_Witness ==
  /\ cresult = "Ok"
  /\ ValidBefore # {}
  /\ InvalidBefore # {}
  /\ Range(versions) = ValidBefore

\* C11: without the cache root, exec ends with status 0, deletes no mapping,
\* not even an invalid one, and does not call clean_files.
C11_NoCacheNoOp ==
  ~cache_exists =>
    /\ ctrace = <<>>
    /\ versions = versions0
    /\ version_dirs = version_dirs0
    /\ requires = <<>>
    /\ cpc = "done" => cresult = "exit0"

\* exec ended without a cache root on a store that holds a mapping, which is
\* invalid as its directory is not there.
C11_Witness ==
  /\ ~cache_exists
  /\ cpc = "done"
  /\ cresult = "exit0"
  /\ InvalidBefore # {}

\* ------------------------------------------------------------------------
\* The three archive names, as the source and its test spell them.
ArchiveNameOf ==
  [windows |-> <<"deno-x86_64-pc-windows-msvc", ".", "zip">>,
   macos |-> <<"deno-x86_64-apple-darwin", ".", "zip">>,
   linux |-> <<"deno-x86_64-unknown-linux-gnu", ".", "zip">>]

\* C12: the url of the archive request is the fixed prefix, the version in
\* its major.minor.patch form, "/", and the archive name of the platform the
\* program was built for; as in test_compose_url_to_exec for 0.0.1.
C12_UrlShape ==
  url # None =>
    LET u == The(url)
        v == The(install_version)
    IN /\ Len(u) = 10
       /\ u[1] = "https://github.com/denoland/deno/releases/download/v"
       /\ semver_parse(SubSeq(u, 2, 6)) = Some(v)
       /\ u[2] = DigitStr[v.major + 1] /\ u[4] = DigitStr[v.minor + 1]
       /\ u[6] = DigitStr[v.patch + 1]
       /\ u[7] = "/"
       /\ SubSeq(u, 8, 10) = ArchiveNameOf[platform]
       /\ (v = [major |-> 0, minor |-> 0, patch |-> 1] /\ platform = "linux") =>
            u = <<"https://github.com/denoland/deno/releases/download/v",
                  "0", ".", "0", ".", "1", "/",
                  "deno-x86_64-unknown-linux-gnu", ".", "zip">>

\* The url of the test, in a run.
C12_Witness ==
  /\ url # None
  /\ install_version = Some([major |-> 0, minor |-> 0, patch |-> 1])
  /\ platform = "linux"

\* ------------------------------------------------------------------------
\* The calls of a run that goes all the way, in the order of upgrade_command.
StageOrder ==
  (IF version = None THEN <<"get_latest_version">> ELSE <<>>)
    \o <<"download_package", "which", "unpack", "set_permissions", "check_exe",
         "replace_exe", "copy">>

IsPrefix(s, t) == Len(s) <= Len(t) /\ s = SubSeq(t, 1, Len(s))

\* C13: the calls of a run are an initial part of the stage order; a stage is
\* entered only with what the stage before it yields on success (a target
\* version, the archive body, the extracted executable, a passed
\* verification); and a run that failed is over.
C13_StagesInOrder ==
  /\ IsPrefix(trace, StageOrder)
  /\ pc \in {"download", "which", "unpack", "permissions", "check_exe",
             "replace_exe", "copy"} => result = "running"
  /\ (pc = "download" \/ Called("download_package")) => install_version # None
  /\ (pc \in {"which", "unpack"} \/ Called("which")) => archive_data # None
  /\ (pc \in {"permissions", "check_exe"} \/ Called("check_exe")) =>
       /\ new_exe_path # None
       /\ dirs[The(new_exe_path)].exe # None
  /\ (pc \in {"replace_exe", "copy"} \/ Called("replace_exe")) =>
       PassesVerification(NewExe.bin, The(install_version))
  /\ result \in {"Err", "exit1", "panic"} => pc = "done"
  /\ (version = None /\ latest_version = None) => ~Called("download_package")

\* The latest version could not be resolved: the run is over with that one call.
C13_Witness ==
  /\ version = None
  /\ force
  /\ pc = "done"
  /\ result = "Err"
  /\ trace = <<"get_latest_version">>

\* C14: download_package returns a body only for a 2xx response, so the
\* later stages only ever run on the body of a 2xx response.
C14_BodyOnlyOn2xx ==
  (archive_data # None \/ Called("which") \/ Called("unpack")) =>
    /\ status_code # None
    /\ 200 <= The(status_code) /\ The(status_code) <= 299

\* C15: when the unpack process fails or leaves no executable, the run ends
\* there with a fatal error: the version directory stays as written, nothing
\* is verified or replaced and the active executable stays.
C15_FailedUnpackLeavesDir ==
  message \in {"unpack: status", "unpack: exe_path"} =>
    /\ pc = "done"
    /\ result = "panic"
    /\ dirs[The(install_version)].exists
    /\ dirs[The(install_version)].zip
    /\ new_exe_path = None
    /\ ~Called("set_permissions")
    /\ ~Called("check_exe")
    /\ ~Called("replace_exe")
    /\ active = active0
    /\ old_sibling = None

\* The unpack process failed in a directory that was not there before.
C15_Witness ==
  /\ message = "unpack: status"
  /\ pc = "done"
  /\ ~dirs0[The(install_version)].exists
  /\ dirs[The(install_version)].exists
  /\ dirs[The(install_version)].exe = None

\* C16: when the first step of replace_exe fails, the run ends with that
\* error: replace_exe was entered once, the copy was not tried, and the
\* active path and its .old sibling hold what they held.
C16_FirstStepFailure ==
  message = "replace_exe: first step" =>
    /\ pc = "done"
    /\ result = "Err"
    /\ Count(trace, "replace_exe") = 1
    /\ ~Called("copy")
    /\ active = active0
    /\ active # None
    /\ old_sibling = None

\* The rename failed on windows.
C16_Witness ==
  /\ message = "replace_exe: first step"
  /\ platform = "windows"
  /\ pc = "done"
  /\ active = active0

\* C17: from verification on, the extracted executable has the permission
\* bits of the old active executable, not those it was extracted with; after
\* a successful upgrade without dry_run the active executable has them too.
C17_PermissionsOfOldExe ==
  /\ (pc = "check_exe" \/ Called("check_exe")) =>
       /\ permissions = Some(The(active0).perm)
       /\ NewExe.perm = The(active0).perm
  /\ (pc = "done" /\ result = "Ok" /\ ~dry_run /\ install_version # None) =>
       The(active).perm = The(active0).perm

\* A successful upgrade: the file was extracted with other bits than the old
\* executable had.
C17_Witness ==
  /\ pc = "done"
  /\ result = "Ok"
  /\ ~dry_run
  /\ Called("copy")
  /\ The(active).id = "new"
  /\ The(active0).perm # ExtractedPerm
  /\ The(active).perm = The(active0).perm

\* C20: the active executable is looked for after the archive was fetched and
\* before unpack; when there is none the run ends there, with one archive
\* fetch made, no version directory created, nothing verified or replaced.
C20_NoActiveExecutable ==
  /\ Called("which") =>
       /\ archive_data # None
       /\ Fetches = 1
  /\ \A i \in 1..Len(trace) :
       /\ trace[i] = "which" =>
            /\ i > 1
            /\ trace[i - 1] = "download_package"
            /\ i < Len(trace) => trace[i + 1] = "unpack"
       /\ trace[i] = "unpack" => (i > 1 /\ trace[i - 1] = "which")
  /\ (active0 = None /\ Called("which")) =>
       /\ pc = "done"
       /\ result = "panic"
       /\ message = "which: unwrap"
       /\ old_exe_path = None
       /\ ~Called("unpack")
       /\ ~Called("check_exe")
       /\ ~Called("replace_exe")
       /\ dirs = dirs0
       /\ active = None

\* No executable was found after the archive of a version without a
\* directory was fetched.
C20_Witness ==
  /\ active0 = None
  /\ message = "which: unwrap"
  /\ pc = "done"
  /\ Fetches = 1
  /\ ~dirs[The(install_version)].exists

\* ------------------------------------------------------------------------
\* C18: after exec on an existing cache root, the version directories are
\* exactly those a mapping that was valid refers to, and every mapping left
\* is valid.
C18_DirsOfValidMappings ==
  cresult = "Ok" =>
    /\ version_dirs = {m.current : m \in ValidBefore}
    /\ version_dirs \subseteq version_dirs0
    /\ \A i \in 1..Len(versions) : versions[i].current \in version_dirs

\* One mapping to a directory that is there, one to a directory that is not,
\* and a directory no mapping refers to: only the first mapping and its
\* directory are left.
C18_Witness ==
  /\ cresult = "Ok"
  /\ Len(versions0) = 2
  /\ Len(versions) = 1
  /\ Cardinality(version_dirs0) = 2
  /\ version_dirs = {versions[1].current}

====
